---- MODULE Spec2Model ----
(***************************************************************************)
(* Model of the Sandbox class of src/src/index.ts: the placeholder         *)
(* resolver, the config loader, the provisioning and clean-up protocol of  *)
(* init/clear, the module-manifest builder and the command runner.         *)
(*                                                                         *)
(* Strings that the code takes apart (config values, paths) are sequences  *)
(* of one-character strings; names that the code only compares or stores   *)
(* (package names, dependency names) are plain strings.                    *)
(***************************************************************************)
EXTENDS Integers, Sequences, FiniteSets, TLC

VARIABLES
    projectPath,     \* this.projectPath
    scenarioPath,    \* this.scenarioPath
    sandboxPath,     \* this.sandboxPath
    isInitialized,   \* this.isInitialized
    config,          \* this.config
    defaults,        \* the config the constructor built (history)
    dirExists,       \* the sandbox directory exists on disk
    disk,            \* the entries of the sandbox directory: relative path -> content
    removals,        \* fs.remove calls started and not yet finished
    inflight,        \* copy / symlink operations started and not yet finished
    pc,              \* per invocation slot: where the async call stands
    call,            \* per invocation slot: the call it runs, [kind, no]
    fileRead,        \* per slot: the config file content this init read
    defState,        \* per slot: state of loadModulesDefinition
    modulesDef,      \* per slot: the manifest loadModulesDefinition returned
    loadedModules,   \* per slot: the local loadedModules object
    modReads,        \* per slot: indexes of alliageModules whose package read is pending
    toWrite,         \* per slot: the object handed to fs.writeJson
    steps,           \* per slot: the steps this init has completed (history)
    settled,         \* the lifecycle call that settled last, with the state it settled in (history)
    lastCmd,         \* the last getConfig / install / build / run call (history)
    nCalls,          \* number of init / clear calls made so far
    rIn,             \* resolver harness: the pieces of the input string
    rOut,            \* resolver harness: the result of replacePlaceholder
    penv,            \* process.env of the parent: variable name -> value
    spawn,           \* the latest cp.exec call: command line, options, inputs of the call
    proc,            \* the child process of that call and its completion promise
    nRuns            \* number of install / build / run calls followed so far

vars == <<projectPath, scenarioPath, sandboxPath, isInitialized, config, defaults,
          dirExists, disk, removals, inflight, pc, call, fileRead, defState,
          modulesDef, loadedModules, modReads, toWrite, steps, settled,
          lastCmd, nCalls, rIn, rOut, penv, spawn, proc, nRuns>>

-----------------------------------------------------------------------------
(* Characters and string literals of the source.                           *)

Letters ==
    {"a","b","c","d","e","f","g","h","i","j","k","l","m","n","o","p","q","r","s",
     "t","u","v","w","x","y","z","A","B","C","D","E","F","G","H","I","J","K","L",
     "M","N","O","P","Q","R","S","T","U","V","W","X","Y","Z"}

PROJECT_ROOT == <<"p","r","o","j","e","c","t","R","o","o","t">>
SCENARIO_ROOT == <<"s","c","e","n","a","r","i","o","R","o","o","t">>

ALLIAGE_MODULES_FILE_NAME ==
    <<"a","l","l","i","a","g","e","-","m","o","d","u","l","e","s",".","j","s","o","n">>
NODE_MODULES_PATH == <<"n","o","d","e","_","m","o","d","u","l","e","s">>
LINKED_MODULES_PATH == <<"l","i","n","k","e","d","_","m","o","d","u","l","e","s">>

NOT_INITIALIZED_MESSAGE == "The sandbox must be initialized by calling the \"init()\" method"

\* A token <name> as a string.
Token(name) == <<"<">> \o name \o <<">">>

RECURSIVE Concat(_)
Concat(pieces) ==
    IF pieces = <<>> THEN <<>> ELSE Head(pieces) \o Concat(Tail(pieces))

-----------------------------------------------------------------------------
(* Placeholder resolver.                                                   *)

\* Properties every object literal inherits from Object.prototype whose
\* names the pattern [a-zA-Z]+ can match, and what calling them without a
\* receiver yields once String.prototype.replace has stringified it.
PROTO_CONSTRUCTOR == <<"c","o","n","s","t","r","u","c","t","o","r">>
PROTO_TO_STRING == <<"t","o","S","t","r","i","n","g">>
PROTO_VALUE_OF == <<"v","a","l","u","e","O","f">>
OBJECT_OBJECT == <<"[","o","b","j","e","c","t"," ","O","b","j","e","c","t","]">>
OBJECT_UNDEFINED ==
    <<"[","o","b","j","e","c","t"," ","U","n","d","e","f","i","n","e","d","]">>

\* A mapping whose two entries are exchanged.
ApplyMapperSwapped(name, pPath, sPath) ==
    IF name = PROJECT_ROOT THEN [err |-> FALSE, str |-> sPath]
    ELSE IF name = SCENARIO_ROOT THEN [err |-> FALSE, str |-> pPath]
    ELSE [err |-> FALSE, str |-> Token(name)]

\* placeholdersMapping[placeholderName] followed by `mapper ? mapper() : placeholder`.
\* The result is [err, str]: err when the call of the mapper throws.
ApplyMapper(name, pPath, sPath) ==
    IF name = PROJECT_ROOT THEN [err |-> FALSE, str |-> pPath]
    ELSE IF name = SCENARIO_ROOT THEN [err |-> FALSE, str |-> sPath]
    ELSE IF name = PROTO_CONSTRUCTOR THEN [err |-> FALSE, str |-> OBJECT_OBJECT]
    ELSE IF name = PROTO_TO_STRING THEN [err |-> FALSE, str |-> OBJECT_UNDEFINED]
    ELSE IF name = PROTO_VALUE_OF THEN [err |-> TRUE, str |-> <<>>]
    ELSE [err |-> FALSE, str |-> Token(name)]

\* The index after the run of letters that starts at i (greedy [a-zA-Z]+).
RECURSIVE LetterRunEnd(_, _)
LetterRunEnd(str, i) ==
    IF i <= Len(str) /\ str[i] \in Letters THEN LetterRunEnd(str, i + 1) ELSE i

\* str.replace(/<([a-zA-Z]+)>/g, replacer) from index i on: one left-to-right
\* pass, the replacement text is not scanned again.
RECURSIVE ReplaceFrom(_, _, _, _)
ReplaceFrom(str, i, pPath, sPath) ==
    IF i > Len(str) THEN [err |-> FALSE, str |-> <<>>]
    ELSE LET j == LetterRunEnd(str, i + 1)
             isToken == str[i] = "<" /\ j > i + 1 /\ j <= Len(str) /\ str[j] = ">"
         IN IF isToken
            THEN LET m == ApplyMapper(SubSeq(str, i + 1, j - 1), pPath, sPath)
                     rest == ReplaceFrom(str, j + 1, pPath, sPath)
                 IN [err |-> m.err \/ rest.err, str |-> m.str \o rest.str]
            ELSE LET rest == ReplaceFrom(str, i + 1, pPath, sPath)
                 IN [err |-> rest.err, str |-> <<str[i]>> \o rest.str]

replacePlaceholder(str, pPath, sPath) == ReplaceFrom(str, 1, pPath, sPath)

-----------------------------------------------------------------------------
(* Inputs: construction parameters, config files, packages.                *)

Callers == {1, 2}          \* invocation slots of the async lifecycle calls

ProjectPaths == {<<"/","p">>}
ScenarioPaths == {<<"/","s">>}
SandboxPaths == {<<"/","b","/","k","7">>}
NodeEnv == {<<>>, <<"n","d">>}      \* process.env.NODE: unset, or set

Slash == <<"/">>

\* Config values used by the config files below.
CopyManifest == Token(PROJECT_ROOT) \o Slash \o ALLIAGE_MODULES_FILE_NAME
LinkName == <<"l">>
LinkPath == Token(PROJECT_ROOT) \o <<"/","d">>
ModM == <<"m">>                                   \* a package name
ModN == Token(PROJECT_ROOT) \o <<"/","n">>        \* a local path
ModC == <<".","/","c">>                           \* a local path

ConfigFields == {"command", "copyFiles", "linkModules", "alliageModules"}

\* A config file: the fields it has and their values.
ConfigFile(has, command, copyFiles, linkModules, alliageModules) ==
    [has |-> has, command |-> command, copyFiles |-> copyFiles,
     linkModules |-> linkModules, alliageModules |-> alliageModules]

FileFull ==
    ConfigFile(ConfigFields, Token(PROJECT_ROOT) \o <<"/","t">>,
               <<CopyManifest>>, <<[name |-> LinkName, path |-> LinkPath]>>,
               <<ModM, ModN>>)
FileLean == ConfigFile({"alliageModules"}, <<>>, <<>>, <<>>, <<ModC>>)
\* The config file of an earlier cycle: a command under the project
\* directory and one package of type module.
FileModule ==
    ConfigFile({"command", "alliageModules"}, Token(PROJECT_ROOT) \o <<"/","t">>,
               <<>>, <<>>, <<ModM>>)

ConfigFiles == {FileFull, FileLean}

\* The package manifests of the host: what fs.readJson returns for the
\* package.json of a module identifier (found = FALSE: the read fails).
NoDeps == [kind |-> "undefined", val |-> <<>>]
Deps(d) == [kind |-> "array", val |-> d]
PackageJson(id) ==
    IF id = ModM
    THEN [found |-> TRUE, name |-> "mod-a", type |-> "module", deps |-> Deps(<<"dep">>)]
    ELSE IF id = <<"/","p","/","n">>
    THEN [found |-> TRUE, name |-> "mod-a", type |-> "module", deps |-> NoDeps]
    ELSE IF id = ModC
    THEN [found |-> TRUE, name |-> "comp", type |-> "compound", deps |-> Deps(<<"dep">>)]
    ELSE [found |-> FALSE, name |-> "", type |-> "none", deps |-> NoDeps]

\* A manifest file among the sources: copying it into the sandbox gives the
\* sandbox a manifest before generateModulesDefinition runs.
SourceManifestPath == <<"/","p","/">> \o ALLIAGE_MODULES_FILE_NAME
SourceManifest ==
    [n \in {"mod-a", "dummy"} |->
        [module |-> <<"o">>, deps |-> [kind |-> "array", val |-> <<>>]]]

Put(f, k, v) == [x \in DOMAIN f \cup {k} |-> IF x = k THEN v ELSE f[x]]
Spread(a, b) == [k \in DOMAIN a \cup DOMAIN b |-> IF k \in DOMAIN b THEN b[k] ELSE a[k]]
EmptyMap == [x \in {} |-> x]

-----------------------------------------------------------------------------
(* Config loader.                                                          *)

\* The config the constructor builds.
DefaultConfig(nodeEnv) ==
    [command |-> IF nodeEnv = <<>> THEN <<"n","o","d","e">> ELSE nodeEnv,
     copyFiles |-> <<>>, linkModules |-> <<>>, alliageModules |-> <<>>]

\* { ...this.config, ...file }: the file's fields on top of the current config.
MergeConfig(cfg, file) ==
    [command |-> IF "command" \in file.has THEN file.command ELSE cfg.command,
     copyFiles |-> IF "copyFiles" \in file.has THEN file.copyFiles ELSE cfg.copyFiles,
     linkModules |->
        IF "linkModules" \in file.has THEN file.linkModules ELSE cfg.linkModules,
     alliageModules |->
        IF "alliageModules" \in file.has THEN file.alliageModules ELSE cfg.alliageModules]

ResolveAll(strs, pPath, sPath) ==
    [i \in 1..Len(strs) |-> replacePlaceholder(strs[i], pPath, sPath).str]
AnyErr(strs, pPath, sPath) ==
    \E i \in 1..Len(strs) : replacePlaceholder(strs[i], pPath, sPath).err

\* The forEach over Object.entries(linkModules): entries are rewritten in
\* order; the first mapper that throws leaves the later ones as they were.
ResolveLinks(links, pPath, sPath) ==
    LET bad == {i \in 1..Len(links) : replacePlaceholder(links[i].path, pPath, sPath).err}
    IN [i \in 1..Len(links) |->
          IF \E b \in bad : b <= i THEN links[i]
          ELSE [name |-> links[i].name,
                path |-> replacePlaceholder(links[i].path, pPath, sPath).str]]
LinksErr(links, pPath, sPath) ==
    \E i \in 1..Len(links) : replacePlaceholder(links[i].path, pPath, sPath).err

\* loadConfig once the file has been read: [err, cfg], cfg being this.config
\* as the call leaves it (a throw leaves the fields not yet reached unresolved).
loadConfig(cfg, file, pPath, sPath) ==
    LET m == MergeConfig(cfg, file)
        c1 == [m EXCEPT !.copyFiles = ResolveAll(m.copyFiles, pPath, sPath)]
        c2 == [c1 EXCEPT !.alliageModules = ResolveAll(m.alliageModules, pPath, sPath)]
        c3 == [c2 EXCEPT !.linkModules = ResolveLinks(m.linkModules, pPath, sPath)]
        c4 == [c3 EXCEPT !.command = replacePlaceholder(m.command, pPath, sPath).str]
    IN IF AnyErr(m.copyFiles, pPath, sPath) THEN [err |-> TRUE, cfg |-> m]
       ELSE IF AnyErr(m.alliageModules, pPath, sPath) THEN [err |-> TRUE, cfg |-> c1]
       ELSE IF LinksErr(m.linkModules, pPath, sPath) THEN [err |-> TRUE, cfg |-> c3]
       ELSE IF replacePlaceholder(m.command, pPath, sPath).err THEN [err |-> TRUE, cfg |-> c3]
       ELSE [err |-> FALSE, cfg |-> c4]

-----------------------------------------------------------------------------
(* Filesystem and JSON helpers.                                            *)

\* path.basename: the last segment of a path, trailing slashes ignored.
RECURSIVE StripSlashes(_)
StripSlashes(p) ==
    IF p # <<>> /\ p[Len(p)] = "/" THEN StripSlashes(SubSeq(p, 1, Len(p) - 1)) ELSE p

RECURSIVE LastSegment(_)
LastSegment(p) ==
    IF p = <<>> \/ p[Len(p)] = "/" THEN <<>>
    ELSE LastSegment(SubSeq(p, 1, Len(p) - 1)) \o <<p[Len(p)]>>

basename(p) == LastSegment(StripSlashes(p))

\* What a copy of the source at src puts at its destination.
SourceContent(src) ==
    IF src = SourceManifestPath
    THEN [kind |-> "json", src |-> src, json |-> SourceManifest]
    ELSE [kind |-> "copy", src |-> src, json |-> EmptyMap]

\* JSON.stringify followed by a parse: a property whose value is undefined
\* is not written.
StringifyEntry(e) ==
    [module |-> e.module,
     deps |-> IF e.deps.kind = "undefined" THEN [kind |-> "absent", val |-> <<>>]
              ELSE e.deps]
Stringify(obj) == [k \in DOMAIN obj |-> StringifyEntry(obj[k])]

\* LOCAL_MODULE_PATTERN = /^\.{0,2}(\/.*)+$/
IsLocalModule(id) ==
    \E k \in 0..2 :
        /\ Len(id) > k
        /\ \A i \in 1..k : id[i] = "."
        /\ id[k + 1] = "/"

-----------------------------------------------------------------------------------------------------------------------------------------------------
(* Initial state: the state the constructor leaves.                        *)

MaxCalls == 2      \* init / clear calls in one behaviour

NoCall == [kind |-> "none", no |-> 0, wasInit |-> FALSE]
NoCmd == [op |-> "none", threw |-> FALSE, msg |-> "", spawns |-> 0, phase |-> "new",
          ret |-> <<>>]
NoSettled ==
    [kind |-> "none", no |-> 0, wasInit |-> FALSE, ok |-> TRUE, fresh |-> FALSE,
     file |-> ConfigFile({}, <<>>, <<>>, <<>>, <<>>), written |-> EmptyMap,
     loaded |-> EmptyMap, stage |-> "none", done |-> {}]

Construct(pPath, sPath, sbPath, nodeEnv) ==
    /\ projectPath = pPath
    /\ scenarioPath = sPath
    /\ sandboxPath = sbPath
    /\ config = DefaultConfig(nodeEnv)
    /\ defaults = DefaultConfig(nodeEnv)
    /\ isInitialized = FALSE
    /\ dirExists = FALSE
    /\ disk = EmptyMap
    /\ removals = {}
    /\ inflight = {}
    /\ pc = [c \in Callers |-> "idle"]
    /\ call = [c \in Callers |-> NoCall]
    /\ fileRead = [c \in Callers |-> NoSettled.file]
    /\ defState = [c \in Callers |-> "none"]
    /\ modulesDef = [c \in Callers |-> EmptyMap]
    /\ loadedModules = [c \in Callers |-> EmptyMap]
    /\ modReads = [c \in Callers |-> {}]
    /\ toWrite = [c \in Callers |-> EmptyMap]
    /\ steps = [c \in Callers |-> {}]
    /\ settled = [NoSettled EXCEPT !.kind = "new"]
    /\ lastCmd = NoCmd
    /\ nCalls = 0

NotResolved == [done |-> FALSE, err |-> FALSE, str |-> <<>>]

\* No command has spawned anything yet.
NoSpawn ==
    [n |-> 0, op |-> "none", args |-> <<>>, overlay |-> EmptyMap, cmd |-> <<>>,
     cwd |-> <<>>, env |-> EmptyMap]
NoProc ==
    [hasOn |-> FALSE, listeners |-> {}, fired |-> {}, completion |-> "none",
     resolutions |-> 0, returned |-> FALSE]
RunnerIdle ==
    /\ spawn = NoSpawn
    /\ proc = NoProc
    /\ nRuns = 0

\* The lifecycle is explored with NODE unset.
Init ==
    /\ \E pPath \in ProjectPaths, sPath \in ScenarioPaths, sbPath \in SandboxPaths :
          Construct(pPath, sPath, sbPath, <<>>)
    /\ rIn = <<>>
    /\ rOut = NotResolved
    /\ penv = EmptyMap
    /\ RunnerIdle

runner == <<penv, spawn, proc, nRuns>>
fixed == <<projectPath, scenarioPath, sandboxPath, defaults, rIn, rOut, runner>>
locals == <<fileRead, defState, modulesDef, loadedModules, modReads, toWrite>>
fsVars == <<dirExists, disk, removals, inflight>>

AllIdle == \A c \in Callers : pc[c] = "idle"
\* A call takes the lowest free slot.
Invoke(c) == pc[c] = "idle" /\ \A d \in Callers : d < c => pc[d] # "idle"
\* Promise continuations run before any I/O completion is delivered.
IoReady == \A c \in Callers : pc[c] # "clearAwait"

\* The locals of the call in slot c go out of scope.
DropLocals(c) ==
    /\ fileRead' = [fileRead EXCEPT ![c] = NoSettled.file]
    /\ defState' = [defState EXCEPT ![c] = "none"]
    /\ modulesDef' = [modulesDef EXCEPT ![c] = EmptyMap]
    /\ loadedModules' = [loadedModules EXCEPT ![c] = EmptyMap]
    /\ modReads' = [modReads EXCEPT ![c] = {}]
    /\ toWrite' = [toWrite EXCEPT ![c] = EmptyMap]

\* No promise settles in this step.
NoSettle == settled' = [settled EXCEPT !.fresh = FALSE, !.stage = "none", !.done = {}]

\* The promise of the call in slot c settles: ok = fulfilled. What the call
\* read and wrote is recorded; settled.fresh holds in the state the promise
\* settles in and in no later one, and so do the await the call was at
\* (stage) and the steps it had completed before (done).
Settle(c, ok, file, written, loaded) ==
    /\ pc' = [pc EXCEPT ![c] = "idle"]
    /\ DropLocals(c)
    /\ settled' = [kind |-> call[c].kind, no |-> call[c].no, wasInit |-> call[c].wasInit,
                   ok |-> ok, fresh |-> TRUE, file |-> file, written |-> written,
                   loaded |-> loaded, stage |-> pc[c], done |-> steps[c]]

\* The failure caught and dropped: the call resolves.
RejectSwallowed(c) ==
    /\ steps' = [steps EXCEPT ![c] = {}]
    /\ Settle(c, TRUE, NoSettled.file, EmptyMap, EmptyMap)

\* The call in slot c rejects: the failure propagates through every await.
Reject(c) ==
    /\ steps' = [steps EXCEPT ![c] = {}]
    /\ Settle(c, FALSE, NoSettled.file, EmptyMap, EmptyMap)

-----------------------------------------------------------------------------
(* clear and the first step of init.                                       *)

\* The numbers of the calls whose promise is still pending.
Live == {call[c].no : c \in {d \in Callers : pc[d] # "idle"}}

\* Nobody holds the promise of an fs call once the lifecycle call that made it
\* has settled: from the next call on it is kept without its number, as one
\* of the instances 0, -1, -2, ... of the same pending fs call.
Instances(n) == {0 - i : i \in 0..(n - 1)}

OrphanRemovals(rs) == (rs \cap Live) \cup Instances(Cardinality(rs \ Live))

\* Two pending operations that differ by their number only.
Same(o, p) == [o EXCEPT !.no = 0] = [p EXCEPT !.no = 0]

OrphanOps(ops) ==
    LET kept == {o \in ops : o.no \in Live}
        lost == ops \ kept
    IN kept \cup UNION {{[o EXCEPT !.no = t] :
                            t \in Instances(Cardinality({p \in lost : Same(o, p)}))} :
                        o \in lost}

\* What leaves the pending set when removal no, or operation o, finishes:
\* itself, or for one without a number the last instance of it.
RetiredRemoval(no) ==
    IF no > 0 THEN no ELSE CHOOSE m \in removals : \A k \in removals : m <= k

RetiredOp(o) ==
    IF o.no > 0 THEN o
    ELSE CHOOSE p \in inflight :
            Same(o, p) /\ \A q \in inflight : Same(o, q) => p.no <= q.no

\* removeSandboxDirectory: fs.remove is started and its promise dropped; the
\* function's own promise is already resolved.
removeSandboxDirectory(no) == removals' = OrphanRemovals(removals) \cup {no}

\* init() / clear() up to the first await.
StartCall(c, k) ==
    /\ Invoke(c)
    /\ nCalls < MaxCalls
    /\ nCalls' = nCalls + 1
    /\ call' = [call EXCEPT ![c] = [kind |-> k, no |-> nCalls + 1,
                                    wasInit |-> isInitialized]]
    /\ removeSandboxDirectory(nCalls + 1)
    /\ inflight' = OrphanOps(inflight)
    /\ pc' = [pc EXCEPT ![c] = "clearAwait"]
    /\ settled' = NoSettled
    /\ lastCmd' = NoCmd
    /\ UNCHANGED <<fixed, locals, isInitialized, config, dirExists, disk, steps>>

InitCall(c) == StartCall(c, "init")
ClearCall(c) == StartCall(c, "clear")

\* A clear that leaves the flag as it was.
FlagKeptByClear == isInitialized

\* The value clear gives the flag: this.isInitialized = false.
FlagAfterClear == FALSE

\* clear() after its await: the flag is reset and the promise resolves.
ClearResolves(c) ==
    /\ pc[c] = "clearAwait"
    /\ call[c].kind = "clear"
    /\ isInitialized' = FlagAfterClear
    /\ lastCmd' = NoCmd
    /\ UNCHANGED <<fixed, config, fsVars, call, steps, nCalls>>
    /\ Settle(c, TRUE, fileRead[c], EmptyMap, EmptyMap)

\* init() after `await this.clear()`: the flag is reset, fs.mkdirp is started.
InitAfterClear(c) ==
    /\ pc[c] = "clearAwait"
    /\ call[c].kind = "init"
    /\ isInitialized' = FlagAfterClear
    /\ pc' = [pc EXCEPT ![c] = "mkdirp"]
    /\ steps' = [steps EXCEPT ![c] = {}]
    /\ lastCmd' = NoCmd
    /\ UNCHANGED <<fixed, locals, config, fsVars, call, nCalls>>
    /\ NoSettle

\* The removal started by call number no takes effect.
RemoveDone(no) ==
    /\ IoReady
    /\ no \in removals
    /\ removals' = removals \ {RetiredRemoval(no)}
    /\ dirExists' = FALSE
    /\ disk' = EmptyMap
    /\ lastCmd' = NoCmd
    /\ UNCHANGED <<fixed, locals, isInitialized, config, inflight, pc, call, steps,
                    nCalls>>
    /\ NoSettle

\* The removal fails; nobody holds its promise.
RemoveFails(no) ==
    /\ IoReady
    /\ no \in removals
    /\ removals' = removals \ {RetiredRemoval(no)}
    /\ lastCmd' = NoCmd
    /\ UNCHANGED <<fixed, locals, isInitialized, config, dirExists, disk, inflight, pc,
                    call, steps, nCalls>>
    /\ NoSettle

-----------------------------------------------------------------------------
(* init: directory creation, config loading, provisioning.                 *)

AddStep(c, step) == steps' = [steps EXCEPT ![c] = @ \cup {step}]

\* fs.mkdirp completes; loadConfig starts reading the config file.
MkdirpDone(c) ==
    /\ IoReady
    /\ pc[c] = "mkdirp"
    /\ dirExists' = TRUE
    /\ pc' = [pc EXCEPT ![c] = "readConfig"]
    /\ AddStep(c, "mkdirp")
    /\ lastCmd' = NoCmd
    /\ UNCHANGED <<fixed, locals, isInitialized, config, disk, removals, inflight, call,
                    nCalls>>
    /\ NoSettle

MkdirpFails(c) ==
    /\ IoReady
    /\ pc[c] = "mkdirp"
    /\ lastCmd' = NoCmd
    /\ UNCHANGED <<fixed, isInitialized, config, fsVars, call, nCalls>>
    /\ Reject(c)

\* The operations init puts in its Promise.all, for a resolved config.
ProvisionOps(cfg, no, pPath) ==
    {[no |-> no, op |-> "copy", src |-> cfg.copyFiles[i], dst |-> basename(cfg.copyFiles[i])] :
        i \in 1..Len(cfg.copyFiles)}
    \cup
    {[no |-> no, op |-> "link", src |-> cfg.linkModules[i].path,
      dst |-> LINKED_MODULES_PATH \o Slash \o cfg.linkModules[i].name] :
        i \in 1..Len(cfg.linkModules)}
    \cup
    {[no |-> no, op |-> "link", src |-> pPath \o Slash \o NODE_MODULES_PATH,
      dst |-> NODE_MODULES_PATH]}

\* The config file has been read, with content file: loadConfig finishes and
\* init starts every copy and symlink at once.
ReadConfig(c, file) ==
    /\ IoReady
    /\ pc[c] = "readConfig"
    /\ lastCmd' = NoCmd
    /\ LET r == loadConfig(config, file, projectPath, scenarioPath) IN
        /\ config' = r.cfg
        /\ UNCHANGED <<fixed, isInitialized, dirExists, disk, removals, call, nCalls>>
        /\ IF r.err
           THEN /\ UNCHANGED inflight
                /\ Reject(c)
           ELSE /\ inflight' = inflight \cup ProvisionOps(r.cfg, call[c].no, projectPath)
                /\ pc' = [pc EXCEPT ![c] = "provision"]
                /\ fileRead' = [fileRead EXCEPT ![c] = file]
                /\ AddStep(c, "config")
                /\ UNCHANGED <<defState, modulesDef, loadedModules, modReads, toWrite>>
                /\ NoSettle

ReadConfigDone(c) == \E file \in ConfigFiles : ReadConfig(c, file)

\* The config file is missing or unparseable.
ReadConfigFails(c) ==
    /\ IoReady
    /\ pc[c] = "readConfig"
    /\ lastCmd' = NoCmd
    /\ UNCHANGED <<fixed, isInitialized, config, fsVars, call, nCalls>>
    /\ Reject(c)

OpContent(o) ==
    IF o.op = "copy" THEN SourceContent(o.src)
    ELSE [kind |-> "link", src |-> o.src, json |-> EmptyMap]

\* A join that lets init go on as soon as one operation has completed.
JoinedAtFirst(ops, no) == TRUE

\* The Promise.all of init for call number no, ops being the operations
\* still pending: it fulfils when none of that call is left.
Joined(ops, no) == \A p \in ops : p.no # no

\* The slot whose Promise.all waits for operation o, if any.
WaitingFor(o) == {c \in Callers : pc[c] = "provision" /\ call[c].no = o.no}

\* The package reads generateModulesDefinition starts: one per identifier.
ModuleReads(cfg) == {[i |-> i, id |-> cfg.alliageModules[i]] : i \in 1..Len(cfg.alliageModules)}

\* A copy or symlink completes (fs.copy and fs.ensureSymlink create missing
\* parent directories). When it is the last one of an init, that init goes
\* on to generateModulesDefinition: pathExists and every package read start.
OpDone(o) ==
    /\ IoReady
    /\ o \in inflight
    /\ inflight' = inflight \ {RetiredOp(o)}
    /\ dirExists' = TRUE
    /\ disk' = Put(disk, o.dst, OpContent(o))
    /\ lastCmd' = NoCmd
    /\ UNCHANGED <<fixed, fileRead, modulesDef, toWrite, isInitialized, config,
                    removals, call, nCalls>>
    /\ NoSettle
    /\ LET last == {c \in WaitingFor(o) : Joined(inflight', o.no)} IN
        /\ pc' = [c \in Callers |-> IF c \in last THEN "manifest" ELSE pc[c]]
        /\ defState' = [c \in Callers |-> IF c \in last THEN "exists" ELSE defState[c]]
        /\ modReads' = [c \in Callers |-> IF c \in last THEN ModuleReads(config)
                                          ELSE modReads[c]]
        /\ loadedModules' = [c \in Callers |-> IF c \in last THEN EmptyMap
                                               ELSE loadedModules[c]]
        /\ steps' = [c \in Callers |-> IF c \in last THEN steps[c] \cup {"provision"}
                                       ELSE steps[c]]

\* A copy or symlink fails: the Promise.all of its init rejects at once, the
\* sibling operations stay in flight.
OpFails(o) ==
    /\ IoReady
    /\ o \in inflight
    /\ inflight' = inflight \ {RetiredOp(o)}
    /\ lastCmd' = NoCmd
    /\ UNCHANGED <<fixed, isInitialized, config, dirExists, disk, removals, call, nCalls>>
    /\ IF WaitingFor(o) = {}
       THEN UNCHANGED <<pc, locals, steps>> /\ NoSettle
       ELSE \E c \in WaitingFor(o) : Reject(c)

-----------------------------------------------------------------------------
(* Module manifest builder.                                                *)

\* The entry a package manifest contributes to loadedModules.
ManifestEntry(id, pkg) == [module |-> id, deps |-> pkg.deps]

\* packageInfo.alliageManifest && packageInfo.alliageManifest.type === 'module'
IsModule(pkg) == pkg.type = "module"

\* The spread in the other order: the existing manifest on top.
MergeManifestReversed(def, loaded) == Spread(loaded, def)

\* { ...modulesDef, ...loadedModules }
MergeManifest(def, loaded) == Spread(def, loaded)

\* One delivery inside generateModulesDefinition, leaving loadModulesDefinition
\* in state ds with result def, loadedModules as loaded and the package reads
\* rd pending. With every package read done and the existing manifest loaded,
\* fs.writeJson starts; with the manifest read failed, the call rejects.
ManifestStep(c, ds, def, loaded, rd) ==
    IF rd = {} /\ ds = "failed"
    THEN Reject(c)
    ELSE /\ defState' = [defState EXCEPT ![c] = ds]
         /\ modulesDef' = [modulesDef EXCEPT ![c] = def]
         /\ loadedModules' = [loadedModules EXCEPT ![c] = loaded]
         /\ modReads' = [modReads EXCEPT ![c] = rd]
         /\ UNCHANGED <<fileRead>>
         /\ NoSettle
         /\ IF rd = {} /\ ds = "ok"
            THEN /\ toWrite' = [toWrite EXCEPT ![c] = MergeManifest(def, loaded)]
                 /\ pc' = [pc EXCEPT ![c] = "write"]
                 /\ AddStep(c, "read")
            ELSE UNCHANGED <<toWrite, pc, steps>>

\* fs.pathExists of loadModulesDefinition delivers.
PathExistsDone(c) ==
    /\ IoReady
    /\ pc[c] = "manifest"
    /\ defState[c] = "exists"
    /\ lastCmd' = NoCmd
    /\ UNCHANGED <<fixed, isInitialized, config, fsVars, call, nCalls>>
    /\ ManifestStep(c, IF ALLIAGE_MODULES_FILE_NAME \in DOMAIN disk THEN "reading" ELSE "ok",
                    EmptyMap, loadedModules[c], modReads[c])

\* fs.readJson of the existing manifest delivers.
ReadManifestDone(c) ==
    /\ IoReady
    /\ pc[c] = "manifest"
    /\ defState[c] = "reading"
    /\ ALLIAGE_MODULES_FILE_NAME \in DOMAIN disk
    /\ lastCmd' = NoCmd
    /\ UNCHANGED <<fixed, isInitialized, config, fsVars, call, nCalls>>
    /\ ManifestStep(c, "ok", disk[ALLIAGE_MODULES_FILE_NAME].json, loadedModules[c],
                    modReads[c])

\* fs.readJson of the existing manifest fails (the file is gone, or I/O).
ReadManifestFails(c) ==
    /\ IoReady
    /\ pc[c] = "manifest"
    /\ defState[c] = "reading"
    /\ lastCmd' = NoCmd
    /\ UNCHANGED <<fixed, isInitialized, config, fsVars, call, nCalls>>
    /\ ManifestStep(c, "failed", modulesDef[c], loadedModules[c], modReads[c])

\* The package.json read of one declared module delivers.
ModuleReadDone(c, r) ==
    /\ IoReady
    /\ pc[c] = "manifest"
    /\ r \in modReads[c]
    /\ PackageJson(r.id).found
    /\ lastCmd' = NoCmd
    /\ UNCHANGED <<fixed, isInitialized, config, fsVars, call, nCalls>>
    /\ ManifestStep(c, defState[c], modulesDef[c],
                    IF IsModule(PackageJson(r.id))
                    THEN Put(loadedModules[c], PackageJson(r.id).name,
                             ManifestEntry(r.id, PackageJson(r.id)))
                    ELSE loadedModules[c],
                    modReads[c] \ {r})

\* The package.json of a declared module cannot be resolved or read: the
\* inner Promise.all rejects at once.
ModuleReadFails(c, r) ==
    /\ IoReady
    /\ pc[c] = "manifest"
    /\ r \in modReads[c]
    /\ lastCmd' = NoCmd
    /\ UNCHANGED <<fixed, isInitialized, config, fsVars, call, nCalls>>
    /\ Reject(c)

\* A flag set only when no other lifecycle call is in flight.
MarkUnlessOverlapping == Cardinality({c \in Callers : pc[c] # "idle"}) = 1

\* The flag init sets once generateModulesDefinition has returned.
MarkInitialized == TRUE

\* fs.writeJson completes (it does not create the directory); init marks the
\* sandbox initialized and resolves.
WriteDone(c) ==
    /\ IoReady
    /\ pc[c] = "write"
    /\ dirExists
    /\ disk' = Put(disk, ALLIAGE_MODULES_FILE_NAME,
                   [kind |-> "json", src |-> <<>>, json |-> Stringify(toWrite[c])])
    /\ isInitialized' = MarkInitialized
    /\ AddStep(c, "write")
    /\ lastCmd' = NoCmd
    /\ UNCHANGED <<fixed, config, dirExists, removals, inflight, call, nCalls>>
    /\ Settle(c, TRUE, fileRead[c], Stringify(toWrite[c]), modulesDef[c])

WriteFails(c) ==
    /\ IoReady
    /\ pc[c] = "write"
    /\ lastCmd' = NoCmd
    /\ UNCHANGED <<fixed, isInitialized, config, fsVars, call, nCalls>>
    /\ Reject(c)

-----------------------------------------------------------------------------
(* getConfig and the command runner. lastCmd holds the outcome of the      *)
(* command called in the step just taken.                                  *)

\* The guard with its condition inverted.
ThrowIfInitialized == isInitialized

\* TRUE when throwIfNotInitialized throws.
throwIfNotInitialized == ~isInitialized

\* Where the lifecycle stands when a command is called.
Phase ==
    IF ~AllIdle THEN "busy"
    ELSE IF settled.kind = "new" THEN "new"
    ELSE IF settled.kind = "clear" THEN "cleared"
    ELSE IF settled.ok THEN "initOk"
    ELSE "initFailed"

Thrown(op) ==
    [op |-> op, threw |-> TRUE, msg |-> NOT_INITIALIZED_MESSAGE, spawns |-> 0,
     phase |-> Phase, ret |-> <<>>]

GetConfig ==
    /\ lastCmd' = IF throwIfNotInitialized THEN Thrown("getConfig")
                  ELSE [op |-> "getConfig", threw |-> FALSE, msg |-> "", spawns |-> 0,
                        phase |-> Phase, ret |-> config]
    /\ UNCHANGED <<fixed, locals, isInitialized, config, fsVars, pc, call, steps, nCalls>>
    /\ NoSettle

\* runCommand: the guard, then cp.exec.
runCommand(command) ==
    /\ lastCmd' = IF throwIfNotInitialized THEN Thrown(command)
                  ELSE [op |-> command, threw |-> FALSE, msg |-> "", spawns |-> 1,
                        phase |-> Phase, ret |-> <<>>]
    /\ UNCHANGED <<fixed, locals, isInitialized, config, fsVars, pc, call, steps, nCalls>>
    /\ NoSettle

Install == runCommand("install")
Run == runCommand("run")
Build == runCommand("build")

-----------------------------------------------------------------------------
(* Specification: one lifecycle call in flight at a time.                  *)

Next ==
    \/ \E c \in Callers : AllIdle /\ InitCall(c)
    \/ \E c \in Callers : AllIdle /\ ClearCall(c)
    \/ \E c \in Callers : ClearResolves(c)
    \/ \E c \in Callers : InitAfterClear(c)
    \/ \E no \in removals : RemoveDone(no)
    \/ \E no \in removals : RemoveFails(no)
    \/ \E c \in Callers : MkdirpDone(c)
    \/ \E c \in Callers : MkdirpFails(c)
    \/ \E c \in Callers : ReadConfigDone(c)
    \/ \E c \in Callers : ReadConfigFails(c)
    \/ \E o \in inflight : OpDone(o)
    \/ \E o \in inflight : OpFails(o)
    \/ \E c \in Callers : PathExistsDone(c)
    \/ \E c \in Callers : ReadManifestDone(c)
    \/ \E c \in Callers : ReadManifestFails(c)
    \/ \E c \in Callers : \E r \in modReads[c] : ModuleReadDone(c, r)
    \/ \E c \in Callers : \E r \in modReads[c] : ModuleReadFails(c, r)
    \/ \E c \in Callers : WriteDone(c)
    \/ \E c \in Callers : WriteFails(c)
    \/ AllIdle /\ GetConfig
    \/ AllIdle /\ Install
    \/ AllIdle /\ Run
    \/ AllIdle /\ Build

Spec == Init /\ [][Next]_vars

-----------------------------------------------------------------------------
(* The placeholder resolver on its own: replacePlaceholder applied to      *)
(* strings put together from tokens and text.                              *)

MaxPieces == 3     \* pieces in one input string

UNKNOWN_PLACEHOLDER ==
    <<"u","n","k","n","o","w","n","P","l","a","c","e","h","o","l","d","e","r">>

KnownTokens == {Token(PROJECT_ROOT), Token(SCENARIO_ROOT)}
OtherTokens ==
    {Token(UNKNOWN_PLACEHOLDER), Token(PROTO_CONSTRUCTOR), Token(PROTO_TO_STRING),
     Token(PROTO_VALUE_OF)}
TextPieces == {<<"a">>, <<"/">>, <<"<">>, <<">">>}
Pieces == KnownTokens \cup OtherTokens \cup TextPieces

PieceSeqs == UNION {[1..n -> Pieces] : n \in 0..MaxPieces}

\* Directory names may hold any character: one project path reads like a token.
ResolverProjectPaths == ProjectPaths \cup {Slash \o Token(SCENARIO_ROOT)}

InitResolve ==
    /\ \E pPath \in ResolverProjectPaths, sPath \in ScenarioPaths,
          sbPath \in SandboxPaths, nodeEnv \in NodeEnv :
          Construct(pPath, sPath, sbPath, nodeEnv)
    /\ rIn \in PieceSeqs
    /\ rOut = NotResolved
    /\ penv = EmptyMap
    /\ RunnerIdle

Resolve ==
    /\ ~rOut.done
    /\ LET r == replacePlaceholder(Concat(rIn), projectPath, scenarioPath)
       IN rOut' = [done |-> TRUE, err |-> r.err, str |-> r.str]
    /\ UNCHANGED <<projectPath, scenarioPath, sandboxPath, defaults, rIn, locals,
                    isInitialized, config, fsVars, pc, call, steps, lastCmd, nCalls,
                    runner>>
    /\ NoSettle

NextResolve == Resolve

SpecResolve == InitResolve /\ [][NextResolve]_vars

-----------------------------------------------------------------------------
(* The command runner on an initialized sandbox: runCommand in full, with  *)
(* the composed environment, cp.exec and the completion promise, and the   *)
(* events of the child process.                                            *)

MaxRuns == 2       \* install / build / run calls in one behaviour

ALLIAGE_SCRIPT_NAME ==
    <<"a","l","l","i","a","g","e","-","s","c","r","i","p","t","s">>
BINS_PATH == NODE_MODULES_PATH \o <<"/",".","b","i","n">>

COMMAND_INSTALL == <<"i","n","s","t","a","l","l">>
COMMAND_BUILD == <<"b","u","i","l","d">>
COMMAND_RUN == <<"r","u","n">>

\* String.prototype.split on a one-character separator.
RECURSIVE split(_, _)
split(str, sep) ==
    IF \A i \in 1..Len(str) : str[i] # sep
    THEN <<str>>
    ELSE LET k == CHOOSE i \in 1..Len(str) :
                    str[i] = sep /\ \A j \in 1..(i - 1) : str[j] # sep
         IN <<SubSeq(str, 1, k - 1)>> \o split(SubSeq(str, k + 1, Len(str)), sep)

\* Array.prototype.join.
RECURSIVE join(_, _)
join(strs, sep) ==
    IF strs = <<>> THEN <<>>
    ELSE IF Len(strs) = 1 THEN strs[1]
    ELSE strs[1] \o <<sep>> \o join(Tail(strs), sep)

\* path.resolve of a relative path against an absolute, normalized one.
pathResolve(base, rel) == base \o Slash \o rel

\* process.env.X?.split(':') || []
EnvEntries(env, name) == IF name \in DOMAIN env THEN split(env[name], ":") ELSE <<>>

\* The module search path without the sandbox's node_modules directory.
computeNodePathLinkedOnly ==
    <<pathResolve(sandboxPath, LINKED_MODULES_PATH)>> \o EnvEntries(penv, "NODE_PATH")

computeNodePath ==
    <<pathResolve(sandboxPath, LINKED_MODULES_PATH),
      pathResolve(sandboxPath, NODE_MODULES_PATH)>> \o EnvEntries(penv, "NODE_PATH")

systemPath ==
    join(EnvEntries(penv, "PATH") \o <<pathResolve(sandboxPath, BINS_PATH)>>, ":")

script == pathResolve(sandboxPath, BINS_PATH \o Slash \o ALLIAGE_SCRIPT_NAME)

\* The command line with the sub-command left out.
CommandLineNoToken(command, args) ==
    config.command \o <<" ">> \o script \o <<" ">> \o join(args, " ")

\* `${this.config.command} ${script} ${command} ${args.join(' ')}`
CommandLine(command, args) ==
    config.command \o <<" ">> \o script \o <<" ">> \o command \o <<" ">> \o join(args, " ")

\* The environment with the caller's overlay applied last.
SpawnEnvOverlayLast(env) ==
    Spread(Put(Put(penv, "NODE_PATH", join(computeNodePath, ":")), "PATH", systemPath), env)

\* { ...process.env, ...env, NODE_PATH: nodePath, PATH: systemPath }
SpawnEnv(env) ==
    Put(Put(Spread(penv, env), "NODE_PATH", join(computeNodePath, ":")), "PATH", systemPath)

\* Subscriptions that leave events out.
SubscriptionsExitOnly == {"exit"}
SubscriptionsNoError == {"exit", "close"}

\* childProcess.on('exit' | 'close' | 'error', resolve)
Subscriptions == {"exit", "close", "error"}

\* A promise that always waits for an event.
CompletionAlwaysPending(hasOn) == "pending"

\* The completion promise right after its executor ran: resolved at once
\* when the process object has no `on`.
CompletionAtSpawn(hasOn) == IF ~hasOn THEN "resolved" ELSE "pending"

\* Inputs of the runner.
ParentPaths == {<<>>, <<"/","x">>, <<"/","x",":","/","y">>}
ParentNodePaths == {<<"/","n">>, <<"/","n",":","/","o">>}
ParentEnvs ==
    {Spread(Spread(a, b), c) :
        a \in {EmptyMap} \cup {Put(EmptyMap, "PATH", v) : v \in ParentPaths},
        b \in {EmptyMap} \cup {Put(EmptyMap, "NODE_PATH", v) : v \in ParentNodePaths},
        c \in {EmptyMap, Put(EmptyMap, "HOME", <<"/","h">>)}}
Overlays ==
    {EmptyMap,
     Put(EmptyMap, "DUMMY_ENV_VARIABLE", <<"d">>),
     Put(Put(EmptyMap, "PATH", <<"/","e">>), "HOME", <<"/","g">>),
     Put(EmptyMap, "NODE_PATH", <<"/","e">>)}
ArgLists == {<<>>, <<<<"a">>>>, <<<<"a">>, <<"b","c">>>>}

\* What a first successful init whose config file has no copies and no links
\* leaves in the sandbox directory when its removal completed before mkdirp:
\* the node_modules symlink and the manifest it wrote.
DiskAfterInit(pPath, manifest) ==
    Put(Put(EmptyMap, NODE_MODULES_PATH,
            [kind |-> "link", src |-> pPath \o Slash \o NODE_MODULES_PATH, json |-> EmptyMap]),
        ALLIAGE_MODULES_FILE_NAME,
        [kind |-> "json", src |-> <<>>, json |-> manifest])

\* With the lean config file the manifest is empty.
LeanDisk(pPath) == DiskAfterInit(pPath, EmptyMap)

\* The manifest a first init writes for such a file: one entry per declared
\* package of type module (names differ), nothing loaded before.
ManifestOf(file) ==
    LET ids == file.alliageModules
        mods == {i \in 1..Len(ids) : IsModule(PackageJson(ids[i]))}
    IN Stringify([n \in {PackageJson(ids[i]).name : i \in mods} |->
                    LET i == CHOOSE j \in mods : PackageJson(ids[j]).name = n
                    IN ManifestEntry(ids[i], PackageJson(ids[i]))])

\* The state in which that init resolves, file being the config file it read.
InitializedWith(pPath, sPath, sbPath, nodeEnv, file) ==
    /\ projectPath = pPath
    /\ scenarioPath = sPath
    /\ sandboxPath = sbPath
    /\ defaults = DefaultConfig(nodeEnv)
    /\ config = loadConfig(DefaultConfig(nodeEnv), file, pPath, sPath).cfg
    /\ disk = DiskAfterInit(pPath, ManifestOf(file))
    /\ isInitialized = TRUE
    /\ dirExists = TRUE
    /\ removals = {}
    /\ inflight = {}
    /\ pc = [c \in Callers |-> "idle"]
    /\ call = [c \in Callers |-> IF c = 1 THEN [kind |-> "init", no |-> 1, wasInit |-> FALSE]
                                 ELSE NoCall]
    /\ fileRead = [c \in Callers |-> NoSettled.file]
    /\ defState = [c \in Callers |-> "none"]
    /\ modulesDef = [c \in Callers |-> EmptyMap]
    /\ loadedModules = [c \in Callers |-> EmptyMap]
    /\ modReads = [c \in Callers |-> {}]
    /\ toWrite = [c \in Callers |-> EmptyMap]
    /\ steps = [c \in Callers |-> IF c = 1
                                  THEN {"mkdirp", "config", "provision", "read", "write"}
                                  ELSE {}]
    /\ settled = [NoSettled EXCEPT !.kind = "init", !.no = 1, !.file = file,
                                   !.written = ManifestOf(file),
                                   !.fresh = TRUE, !.stage = "write",
                                   !.done = {"mkdirp", "config", "provision", "read"}]
    /\ lastCmd = NoCmd
    /\ nCalls = 1
    /\ rIn = <<>>
    /\ rOut = NotResolved

Initialized(pPath, sPath, sbPath, nodeEnv) ==
    InitializedWith(pPath, sPath, sbPath, nodeEnv, FileLean)

InitRun ==
    /\ \E pPath \in ProjectPaths, sPath \in ScenarioPaths, sbPath \in SandboxPaths,
          nodeEnv \in NodeEnv :
          Initialized(pPath, sPath, sbPath, nodeEnv)
    /\ penv \in ParentEnvs
    /\ RunnerIdle

\* runCommand in full: the guard, cp.exec with the composed command line and
\* options, the completion promise and its subscriptions, the handle returned.
\* hasOn: the object cp.exec returned has an `on` method.
ExecCommand(op, command, args, env, hasOn) ==
    /\ nRuns < MaxRuns
    /\ nRuns' = nRuns + 1
    /\ IF throwIfNotInitialized
       THEN /\ lastCmd' = Thrown(op)
            /\ UNCHANGED <<spawn, proc>>
       ELSE /\ lastCmd' = [op |-> op, threw |-> FALSE, msg |-> "", spawns |-> 1,
                           phase |-> Phase, ret |-> <<>>]
            /\ spawn' = [n |-> spawn.n + 1, op |-> op, args |-> args, overlay |-> env,
                         cmd |-> CommandLine(command, args), cwd |-> sandboxPath,
                         env |-> SpawnEnv(env)]
            /\ proc' = [hasOn |-> hasOn,
                        listeners |-> IF hasOn THEN Subscriptions ELSE {},
                        fired |-> {},
                        completion |-> CompletionAtSpawn(hasOn),
                        resolutions |-> IF CompletionAtSpawn(hasOn) = "resolved" THEN 1 ELSE 0,
                        returned |-> TRUE]
    /\ UNCHANGED <<projectPath, scenarioPath, sandboxPath, defaults, rIn, rOut, penv,
                    locals, isInitialized, config, fsVars, pc, call, steps, nCalls>>
    /\ NoSettle

ExecInstall ==
    \E args \in ArgLists, env \in Overlays, hasOn \in BOOLEAN :
        ExecCommand("install", COMMAND_INSTALL, args, env, hasOn)
ExecRun ==
    \E args \in ArgLists, env \in Overlays, hasOn \in BOOLEAN :
        ExecCommand("run", COMMAND_RUN, args, env, hasOn)
ExecBuild ==
    \E args \in ArgLists, env \in Overlays, hasOn \in BOOLEAN :
        ExecCommand("build", COMMAND_BUILD, args, env, hasOn)

\* The child process emits exit, close or error. A subscribed event calls
\* resolve; resolving a promise that is already resolved does nothing.
Emit(e) ==
    /\ proc.hasOn
    /\ e \notin proc.fired
    /\ proc' = [proc EXCEPT
                  !.fired = @ \cup {e},
                  !.completion = IF e \in proc.listeners THEN "resolved" ELSE @,
                  !.resolutions = IF e \in proc.listeners /\ proc.completion = "pending"
                                  THEN @ + 1 ELSE @]
    /\ lastCmd' = NoCmd
    /\ UNCHANGED <<projectPath, scenarioPath, sandboxPath, defaults, rIn, rOut, penv,
                    spawn, nRuns, locals, isInitialized, config, fsVars, pc, call,
                    steps, nCalls>>
    /\ NoSettle

NextRun ==
    \/ ExecInstall
    \/ ExecRun
    \/ ExecBuild
    \/ \E e \in {"exit", "close", "error"} : Emit(e)

SpecRun == InitRun /\ [][NextRun]_vars

-----------------------------------------------------------------------------
(* The lifecycle continued from an initialized sandbox: the calls that     *)
(* follow a first successful init.                                         *)

InitReinit ==
    /\ \E pPath \in ProjectPaths, sPath \in ScenarioPaths, sbPath \in SandboxPaths :
          Initialized(pPath, sPath, sbPath, <<>>)
    /\ penv = EmptyMap
    /\ RunnerIdle

SpecReinit == InitReinit /\ [][Next]_vars

-----------------------------------------------------------------------------
(* A later cycle with another config file: the first init read a file that *)
(* sets the command and declares a package of type module, the calls that  *)
(* follow read the config files of ConfigFiles.                            *)

InitChanged ==
    /\ \E pPath \in ResolverProjectPaths, sPath \in ScenarioPaths, sbPath \in SandboxPaths :
          InitializedWith(pPath, sPath, sbPath, <<>>, FileModule)
    /\ penv = EmptyMap
    /\ RunnerIdle

SpecChanged == InitChanged /\ [][Next]_vars

-----------------------------------------------------------------------------
(* Commands called while a lifecycle call is in flight: the caller does    *)
(* not await init or clear before it calls getConfig, install, build or    *)
(* run; lifecycle calls themselves follow one another. A command called    *)
(* with a call at its first await runs in the caller's own turn, before    *)
(* any continuation of that call.                                          *)

NextDuring ==
    \/ \E c \in Callers : AllIdle /\ InitCall(c)
    \/ \E c \in Callers : AllIdle /\ ClearCall(c)
    \/ \E c \in Callers : ClearResolves(c)
    \/ \E c \in Callers : InitAfterClear(c)
    \/ \E no \in removals : RemoveDone(no)
    \/ \E no \in removals : RemoveFails(no)
    \/ \E c \in Callers : MkdirpDone(c)
    \/ \E c \in Callers : MkdirpFails(c)
    \/ \E c \in Callers : ReadConfigDone(c)
    \/ \E c \in Callers : ReadConfigFails(c)
    \/ \E o \in inflight : OpDone(o)
    \/ \E o \in inflight : OpFails(o)
    \/ \E c \in Callers : PathExistsDone(c)
    \/ \E c \in Callers : ReadManifestDone(c)
    \/ \E c \in Callers : ReadManifestFails(c)
    \/ \E c \in Callers : \E r \in modReads[c] : ModuleReadDone(c, r)
    \/ \E c \in Callers : \E r \in modReads[c] : ModuleReadFails(c, r)
    \/ \E c \in Callers : WriteDone(c)
    \/ \E c \in Callers : WriteFails(c)
    \/ GetConfig
    \/ Install
    \/ Run
    \/ Build

SpecDuring == InitReinit /\ [][NextDuring]_vars

-----------------------------------------------------------------------------
(* Overlapping init calls: init is invoked again while an earlier init is  *)
(* still in flight. Nothing in init or clear looks at the calls in flight. *)
(* The config file is the lean one throughout.                             *)

NextOverlap ==
    \/ \E c \in Callers : InitCall(c)
    \/ \E c \in Callers : InitAfterClear(c)
    \/ \E no \in removals : RemoveDone(no)
    \/ \E no \in removals : RemoveFails(no)
    \/ \E c \in Callers : MkdirpDone(c)
    \/ \E c \in Callers : MkdirpFails(c)
    \/ \E c \in Callers : ReadConfig(c, FileLean)
    \/ \E c \in Callers : ReadConfigFails(c)
    \/ \E o \in inflight : OpDone(o)
    \/ \E o \in inflight : OpFails(o)
    \/ \E c \in Callers : PathExistsDone(c)
    \/ \E c \in Callers : ReadManifestDone(c)
    \/ \E c \in Callers : ReadManifestFails(c)
    \/ \E c \in Callers : \E r \in modReads[c] : ModuleReadDone(c, r)
    \/ \E c \in Callers : \E r \in modReads[c] : ModuleReadFails(c, r)
    \/ \E c \in Callers : WriteDone(c)
    \/ \E c \in Callers : WriteFails(c)

SpecOverlap == Init /\ [][NextOverlap]_vars

-----------------------------------------------------------------------------
(* Properties of the lifecycle, checked under Spec.                        *)

AllSteps == {"mkdirp", "config", "provision", "read", "write"}

\* C1: in every state where the sandbox is not initialized (after
\* construction, after clear, after an init that failed), getConfig, install,
\* build and run throw the fixed message and spawn no process.
C1_NotInitializedCommandsFail ==
    (lastCmd.op # "none" /\ lastCmd.phase \in {"new", "cleared", "initFailed"})
        => /\ lastCmd.threw
           /\ lastCmd.msg = NOT_INITIALIZED_MESSAGE
           /\ lastCmd.spawns = 0

\* A command called after the failed re-init of a sandbox that was initialized.
C1_Witness ==
    /\ lastCmd.op = "build"
    /\ lastCmd.phase = "initFailed"
    /\ settled.wasInit
    /\ lastCmd.threw

Provisioned(cfg) ==
    /\ dirExists
    /\ \A o \in ProvisionOps(cfg, 0, projectPath) :
          o.dst \in DOMAIN disk /\ disk[o.dst] = OpContent(o)
    /\ ALLIAGE_MODULES_FILE_NAME \in DOMAIN disk
    /\ disk[ALLIAGE_MODULES_FILE_NAME].json = settled.written

\* C3 (as claimed): within one init the removal has taken effect before the
\* directory is created, so it deletes nothing the same init creates; when
\* init completes successfully the directory holds everything it provisioned.
C3_RemovalPrecedesCreation ==
    /\ \A c \in Callers :
          (call[c].kind = "init" /\ pc[c] \in {"readConfig", "provision", "manifest", "write"})
              => call[c].no \notin removals
    /\ (settled.fresh /\ settled.kind = "init" /\ settled.ok) => Provisioned(config)

\* C4 (as claimed): when the promise of clear() resolves, the sandbox
\* directory has been removed and the flag is false.
C4_ClearRemovesDirectory ==
    (settled.fresh /\ settled.kind = "clear") => (~dirExists /\ ~isInitialized)

\* The identifiers of ids whose package manifest is of type "module".
ModuleIndexes(ids) == {i \in 1..Len(ids) : PackageJson(ids[i]).type = "module"}

\* C5: after a successful init the written manifest is the loaded one with,
\* for every identifier of type "module", the entry name -> {module, deps}
\* added or overwritten; other identifiers add, change and remove nothing.
C5_ManifestMerge ==
    (settled.kind = "init" /\ settled.ok) =>
        LET ids == config.alliageModules
            mods == ModuleIndexes(ids)
            names == {PackageJson(ids[i]).name : i \in mods}
            w == settled.written
            pre == settled.loaded
        IN /\ DOMAIN w = DOMAIN pre \cup names
           /\ \A n \in DOMAIN w \ names : w[n] = pre[n]
           /\ \A n \in names :
                \E i \in mods :
                    /\ PackageJson(ids[i]).name = n
                    /\ w[n].module = ids[i]
                    /\ PackageJson(ids[i]).deps.kind = "array"
                          => w[n].deps = PackageJson(ids[i]).deps
           /\ settled.fresh => disk[ALLIAGE_MODULES_FILE_NAME].json = w

\* A successful init that loaded an existing manifest, overwrote one of its
\* entries and kept another.
C5_Witness ==
    /\ settled.kind = "init"
    /\ settled.ok
    /\ DOMAIN settled.loaded = {"mod-a", "dummy"}
    /\ settled.written["mod-a"].module # settled.loaded["mod-a"].module
    /\ settled.written["dummy"] = settled.loaded["dummy"]

\* C6 (as claimed): of two identifiers of type "module" with the same name,
\* the written manifest keeps the entry of the one listed later, whatever
\* order the package reads complete in.
C6_LaterIdentifierWins ==
    (settled.kind = "init" /\ settled.ok) =>
        LET ids == config.alliageModules
            mods == ModuleIndexes(ids)
        IN \A i \in mods, j \in mods :
              (/\ i < j
               /\ PackageJson(ids[i]).name = PackageJson(ids[j]).name
               /\ \A k \in mods : k > j => PackageJson(ids[k]).name # PackageJson(ids[j]).name)
                  => settled.written[PackageJson(ids[j]).name].module = ids[j]

\* C7 (as claimed): a package manifest of type "module" without
\* alliageManifest.dependencies contributes an entry whose deps is the empty
\* sequence.
C7_DepsDefaultEmpty ==
    (settled.kind = "init" /\ settled.ok) =>
        LET ids == config.alliageModules
        IN \A i \in ModuleIndexes(ids) :
              (/\ PackageJson(ids[i]).deps.kind = "undefined"
               /\ settled.written[PackageJson(ids[i]).name].module = ids[i])
                  => settled.written[PackageJson(ids[i]).name].deps
                        = [kind |-> "array", val |-> <<>>]

\* The merge of a config file on top of the built-in defaults.
MergeOnDefaults(file, dflt) ==
    [command |-> IF "command" \in file.has THEN file.command ELSE dflt.command,
     copyFiles |-> IF "copyFiles" \in file.has THEN file.copyFiles ELSE dflt.copyFiles,
     linkModules |->
        IF "linkModules" \in file.has THEN file.linkModules ELSE dflt.linkModules,
     alliageModules |->
        IF "alliageModules" \in file.has THEN file.alliageModules ELSE dflt.alliageModules]

\* The config the config loader is specified to produce: the defaults
\* overlaid with the file's fields, placeholders resolved.
ExpectedConfig(file, dflt) ==
    LET m == MergeOnDefaults(file, dflt)
        R(str) == replacePlaceholder(str, projectPath, scenarioPath).str
    IN [command |-> R(m.command),
        copyFiles |-> [i \in 1..Len(m.copyFiles) |-> R(m.copyFiles[i])],
        linkModules |-> [i \in 1..Len(m.linkModules) |->
                            [name |-> m.linkModules[i].name, path |-> R(m.linkModules[i].path)]],
        alliageModules |-> [i \in 1..Len(m.alliageModules) |-> R(m.alliageModules[i])]]

\* C8 (as claimed): after every successful init, re-init included, getConfig
\* returns the built-in defaults overlaid with the fields of the config file
\* read by that init, placeholders resolved; nothing of an earlier cycle survives.
C8_ConfigFromDefaults ==
    (lastCmd.op = "getConfig" /\ ~lastCmd.threw) =>
        /\ settled.kind = "init"
        /\ settled.ok
        /\ lastCmd.ret = ExpectedConfig(settled.file, defaults)

-----------------------------------------------------------------------------
(* Properties of the placeholder resolver, checked under SpecResolve.      *)

\* The string the resolver is specified to return for the pieces: the two
\* known tokens replaced by the paths, every other piece as it is.
ExpectedString(pieces) ==
    Concat([i \in 1..Len(pieces) |->
              IF pieces[i] = Token(PROJECT_ROOT) THEN projectPath
              ELSE IF pieces[i] = Token(SCENARIO_ROOT) THEN scenarioPath
              ELSE pieces[i]])

KnownOnly(pieces) == \A i \in 1..Len(pieces) : pieces[i] \in KnownTokens \cup TextPieces

\* C9: in a string made of text and the tokens <projectRoot> and
\* <scenarioRoot>, every occurrence of each token is replaced by the project
\* path respectively the scenario path, in any order and with repetitions,
\* and the rest of the text is unchanged.
C9_KnownTokensResolved ==
    (rOut.done /\ KnownOnly(rIn)) => (~rOut.err /\ rOut.str = ExpectedString(rIn))

\* A resolved string with <scenarioRoot> before <projectRoot>, the latter twice.
C9_Witness ==
    /\ rOut.done
    /\ rIn = <<Token(SCENARIO_ROOT), Token(PROJECT_ROOT), Token(PROJECT_ROOT)>>
    /\ projectPath # <<"/","p">>

\* C10 (as claimed): a token whose identifier is neither projectRoot nor
\* scenarioRoot is left unchanged, raises no error, and the known tokens of
\* the same string are still resolved.
C10_OtherTokensUntouched ==
    rOut.done => (~rOut.err /\ rOut.str = ExpectedString(rIn))

-----------------------------------------------------------------------------
(* Properties of the command runner, checked under SpecRun.                *)

\* The directories and the script the runner is specified to use, spelled out.
ExpectedLinkedDir ==
    sandboxPath \o <<"/","l","i","n","k","e","d","_","m","o","d","u","l","e","s">>
ExpectedModulesDir ==
    sandboxPath \o <<"/","n","o","d","e","_","m","o","d","u","l","e","s">>
ExpectedBinDir == ExpectedModulesDir \o <<"/",".","b","i","n">>
ExpectedScript ==
    ExpectedBinDir \o <<"/","a","l","l","i","a","g","e","-","s","c","r","i","p","t","s">>

Composed == {"NODE_PATH", "PATH"}

\* C11: the spawned environment is the parent environment overlaid with the
\* caller's overlay and then with the composed NODE_PATH and PATH; inherited
\* variables not overridden are kept, overlay variables are present, the two
\* composed variables win over the overlay; PATH is the inherited PATH
\* followed by <sandbox>/node_modules/.bin, and that directory alone when the
\* parent PATH is unset.
C11_SpawnEnvironment ==
    spawn.n > 0 =>
        LET e == spawn.env
            o == spawn.overlay
        IN /\ DOMAIN e = DOMAIN penv \cup DOMAIN o \cup Composed
           /\ \A v \in DOMAIN penv \ (DOMAIN o \cup Composed) : e[v] = penv[v]
           /\ \A v \in DOMAIN o \ Composed : e[v] = o[v]
           /\ e["NODE_PATH"] = join(computeNodePath, ":")
           /\ e["PATH"] = IF "PATH" \in DOMAIN penv
                          THEN penv["PATH"] \o <<":">> \o ExpectedBinDir
                          ELSE ExpectedBinDir

\* A command whose overlay sets PATH and overrides an inherited variable,
\* with PATH set in the parent.
C11_Witness ==
    /\ spawn.n > 0
    /\ {"PATH", "HOME"} \subseteq DOMAIN spawn.overlay
    /\ {"PATH", "HOME", "NODE_PATH"} \subseteq DOMAIN penv
    /\ Len(penv["PATH"]) > 0

C13_NodePathLinkedThenParent ==
    spawn.n > 0 =>
        spawn.env["NODE_PATH"] =
            ExpectedLinkedDir
                \o (IF "NODE_PATH" \in DOMAIN penv THEN <<":">> \o penv["NODE_PATH"]
                    ELSE <<>>)

SubCommandToken(op) ==
    CASE op = "install" -> <<"i","n","s","t","a","l","l">>
      [] op = "build" -> <<"b","u","i","l","d">>
      [] op = "run" -> <<"r","u","n">>

\* C14: each install, build or run call on an initialized sandbox spawns
\* exactly one process, in the sandbox root, with the command line
\* '<config.command> <sandbox>/node_modules/.bin/alliage-scripts <sub-command>
\* <arguments joined by spaces>'; apart from the sub-command nothing depends
\* on which of the three operations was called.
C14_CommandLine ==
    /\ spawn.n = nRuns
    /\ lastCmd.op \in {"install", "build", "run"} => lastCmd.spawns = 1 /\ lastCmd.op = spawn.op
    /\ spawn.n > 0 =>
        /\ spawn.cwd = sandboxPath
        /\ spawn.cmd = join(<<config.command, ExpectedScript, SubCommandToken(spawn.op),
                              join(spawn.args, " ")>>, " ")
        /\ spawn.env = SpawnEnv(spawn.overlay)

\* A second command, a build with two arguments.
C14_Witness ==
    /\ spawn.n = 2
    /\ spawn.op = "build"
    /\ Len(spawn.args) = 2
    /\ lastCmd.op = "build"

\* C15: for a process with event subscription the completion signal is
\* unresolved before any of exit, close, error has fired, resolved once the
\* first of them has fired, and resolved exactly once however many fire.
C15_ResolvesOnceOnFirstEvent ==
    (spawn.n > 0 /\ proc.hasOn) =>
        /\ proc.fired = {} => (proc.completion = "pending" /\ proc.resolutions = 0)
        /\ proc.fired # {} => (proc.completion = "resolved" /\ proc.resolutions = 1)

\* All three events have fired.
C15_Witness ==
    /\ proc.hasOn
    /\ proc.fired = {"exit", "close", "error"}
    /\ proc.resolutions = 1

\* C16: the error event of the child resolves the completion signal like
\* exit or close; the signal never rejects and the call that created the
\* handle returned it.
C16_ErrorResolves ==
    /\ proc.completion \in {"none", "pending", "resolved"}
    /\ (proc.hasOn /\ "error" \in proc.fired) =>
          (proc.completion = "resolved" /\ proc.returned /\ ~lastCmd.threw)

\* The error event is the only one that has fired.
C16_Witness ==
    /\ proc.hasOn
    /\ proc.fired = {"error"}
    /\ proc.completion = "resolved"

\* C17: when the object returned by cp.exec has no event subscription, the
\* completion signal is resolved as soon as the call returns, no event fired.
C17_ResolvedWithoutSubscription ==
    (spawn.n > 0 /\ ~proc.hasOn) =>
        (proc.completion = "resolved" /\ proc.fired = {} /\ proc.listeners = {})

\* A command whose process object has no `on`.
C17_Witness ==
    /\ spawn.n > 0
    /\ ~proc.hasOn
    /\ proc.completion = "resolved"
    /\ lastCmd.op = "run"

-----------------------------------------------------------------------------
(* Failure propagation, checked under Spec, and re-initialisation, checked *)
(* under SpecReinit.                                                       *)

\* C18: an init that fails at the config file read, a copy or symlink, the
\* read of the existing manifest or a package-manifest read rejects; the flag
\* is false afterwards, also when the sandbox was initialized before; after a
\* failure in config loading or provisioning that init has neither read nor
\* written the module manifest. A failed read of the existing manifest is held
\* back only while package reads are pending, and init resolves from nowhere
\* but the completed manifest write.
C18_FailureFailsInit ==
    /\ (settled.fresh /\ settled.kind = "init" /\ ~settled.ok) =>
          /\ ~isInitialized
          /\ AllIdle
          /\ settled.stage \in {"mkdirp", "readConfig", "provision", "manifest", "write"}
          /\ settled.stage \in {"readConfig", "provision"} =>
                settled.done \cap {"read", "write"} = {}
    /\ (settled.fresh /\ settled.kind = "init" /\ settled.ok) =>
          /\ settled.stage = "write"
          /\ settled.done = {"mkdirp", "config", "provision", "read"}
    /\ \A c \in Callers :
          defState[c] = "failed" =>
              (pc[c] = "manifest" /\ modReads[c] # {} /\ ~isInitialized)

\* The re-init of an initialized sandbox has just failed in provisioning,
\* with sibling operations still in flight.
C18_Witness ==
    /\ settled.fresh
    /\ settled.kind = "init"
    /\ ~settled.ok
    /\ settled.wasInit
    /\ settled.stage = "provision"
    /\ ~isInitialized
    /\ \E o \in inflight : o.no = settled.no

\* C19 (as claimed): when the removal of the sandbox directory fails, the
\* clear or init call that started it fails. (Stated for a removal that fails
\* on a directory that exists, which no successful removal step resembles.)
C19_RemovalFailureSurfaces ==
    [][\A no \in removals :
          (dirExists /\ RemoveFails(no))
              => (settled'.fresh /\ ~settled'.ok /\ settled'.no = no)
      ]_vars

\* C20 (as claimed): a second init on the initialized sandbox, with the
\* config file, sources and package manifests unchanged, ends in the state
\* the first init ended in: flag true, the same config, the same directory
\* contents, the same written manifest.
C20_ReinitSameState ==
    (/\ AllIdle
     /\ nCalls = 2
     /\ settled.kind = "init"
     /\ settled.ok
     /\ settled.wasInit
     /\ settled.file = FileLean)
        => /\ isInitialized
           /\ config = loadConfig(defaults, FileLean, projectPath, scenarioPath).cfg
           /\ settled.written = EmptyMap
           /\ dirExists
           /\ disk = LeanDisk(projectPath)

-----------------------------------------------------------------------------
(* A later cycle with another config file, checked under SpecChanged.      *)

\* C21 (as claimed): the init that follows a first init, reading a config
\* file that declares no package of type module, starts from a clean
\* directory: the manifest it loads as existing is empty, the manifest it
\* writes has no entry of the first cycle, and the directory holds nothing but
\* what this init produced.
C21_CleanStart ==
    (/\ settled.fresh
     /\ settled.kind = "init"
     /\ settled.ok
     /\ settled.no = 2
     /\ settled.file = FileLean)
        => /\ settled.loaded = EmptyMap
           /\ \A n \in DOMAIN ManifestOf(FileModule) :
                 n \in DOMAIN settled.written => n \in DOMAIN ManifestOf(FileLean)
           /\ DOMAIN disk \subseteq {NODE_MODULES_PATH, ALLIAGE_MODULES_FILE_NAME}

\* C24 (as claimed): every path-bearing config value has passed through the
\* resolver exactly once when a filesystem operation uses it and when init
\* has completed, also a value kept from the earlier cycle because the file
\* of the current one omits its field: the command is the command of the
\* first file with <projectRoot> replaced once, and every copy started copies
\* the file named by the full config file with <projectRoot> replaced once.
C24_ResolvedExactlyOnce ==
    /\ (/\ settled.fresh
        /\ settled.kind = "init"
        /\ settled.ok
        /\ settled.no = 2
        /\ settled.file = FileLean)
           => config.command = projectPath \o <<"/","t">>
    /\ \A o \in inflight :
          (o.op = "copy" /\ o.no = 2)
              => o.src = projectPath \o Slash \o ALLIAGE_MODULES_FILE_NAME

-----------------------------------------------------------------------------
(* Overlapping init calls, checked under SpecOverlap.                      *)

\* C22: init calls that overlap are not kept apart. An init that completes
\* its own steps sets the flag and fulfils whatever the other call in flight
\* is doing, and the flag, once true, says no more than that some call has
\* completed its own steps since it reset them. (The state the claim names,
\* flag true with the other call's removal and provisioning unfinished, is
\* the witness.)
C22_FlagIgnoresOtherCall ==
    /\ (settled.fresh /\ settled.kind = "init" /\ settled.ok) =>
          /\ isInitialized
          /\ settled.done = AllSteps \ {"write"}
    /\ isInitialized => \E c \in Callers : steps[c] = AllSteps
    /\ \A c \in Callers : pc[c] = "provision" => \E o \in inflight : o.no = call[c].no

\* One init has just fulfilled and set the flag while the other is still
\* provisioning, its removal of the directory pending, and the directory
\* lacks the node_modules symlink.
C22_Witness ==
    /\ isInitialized
    /\ settled.fresh
    /\ settled.ok
    /\ \E c \in Callers :
          /\ pc[c] = "provision"
          /\ call[c].no # settled.no
          /\ call[c].no \in removals
          /\ \E o \in inflight : o.no = call[c].no
    /\ NODE_MODULES_PATH \notin DOMAIN disk

-----------------------------------------------------------------------------
(* The order of the steps of one init, checked under Spec.                 *)

\* The operations of the call in flight in slot c that are still pending.
OwnOps(c) == IF pc[c] = "idle" THEN {} ELSE {o \in inflight : o.no = call[c].no}

\* Resolving the string again would change nothing.
Resolved(str) == replacePlaceholder(str, projectPath, scenarioPath).str = str

\* C23: within one init, copies and symlinks are pending only during the
\* provisioning step, after the directory was created and the config loaded,
\* and they are the operations of the resolved config; the read of the
\* existing manifest and the package reads are pending, and the write is
\* under way, only after the provisioning step has completed with no
\* operation of the call left; the write is under way only after the existing
\* manifest and every package manifest have been read, and it writes their
\* merge; the flag is true only after a manifest write has completed.
C23_StepsOrdered ==
    /\ \A c \in Callers :
          /\ OwnOps(c) # {} =>
                /\ pc[c] = "provision"
                /\ steps[c] = {"mkdirp", "config"}
                /\ OwnOps(c) \subseteq ProvisionOps(config, call[c].no, projectPath)
                /\ \A o \in OwnOps(c) : Resolved(o.src)
          /\ pc[c] = "mkdirp" => steps[c] = {}
          /\ pc[c] = "readConfig" => steps[c] = {"mkdirp"}
          /\ (pc[c] \in {"manifest", "write"} \/ defState[c] # "none" \/ modReads[c] # {}) =>
                /\ {"mkdirp", "config", "provision"} \subseteq steps[c]
                /\ OwnOps(c) = {}
          /\ pc[c] = "manifest" => steps[c] \cap {"read", "write"} = {}
          /\ pc[c] = "write" =>
                /\ steps[c] = {"mkdirp", "config", "provision", "read"}
                /\ modReads[c] = {}
                /\ defState[c] = "ok"
                /\ toWrite[c] = MergeManifest(modulesDef[c], loadedModules[c])
    /\ isInitialized =>
          \E c \in Callers : "write" \in steps[c] /\ pc[c] \in {"idle", "clearAwait"}

\* An init with the full config file has read the existing manifest and both
\* package manifests and is writing the manifest.
C23_Witness ==
    \E c \in Callers :
        /\ pc[c] = "write"
        /\ fileRead[c] = FileFull
        /\ modulesDef[c] # EmptyMap
        /\ DOMAIN loadedModules[c] = {"mod-a"}

-----------------------------------------------------------------------------
(* What is in flight when init settles, checked under Spec.                *)

\* C25 (as claimed): in the state in which the promise of an init settles,
\* fulfilled or rejected, neither the removal nor a copy or symlink started by
\* that init is still pending.
C25_NothingInFlightAtSettle ==
    (settled.fresh /\ settled.kind = "init")
        => /\ settled.no \notin removals
           /\ \A o \in inflight : o.no # settled.no

-----------------------------------------------------------------------------
(* Commands during a re-init, checked under SpecDuring.                    *)

\* The re-init of a sandbox that was initialized is in flight in slot c.
Reinit(c) == pc[c] # "idle" /\ call[c].kind = "init" /\ call[c].wasInit

\* C26 (as claimed): a command called at any point while the re-init of an
\* initialized sandbox is in flight throws the not-initialized error and
\* spawns nothing.
C26_CommandsFailDuringReinit ==
    (lastCmd.op # "none" /\ \E c \in Callers : Reinit(c))
        => /\ lastCmd.threw
           /\ lastCmd.msg = NOT_INITIALIZED_MESSAGE
           /\ lastCmd.spawns = 0

\* C26 (amended): a command called while the re-init is in flight throws the
\* not-initialized error and spawns nothing once the continuation of clear
\* has run; a command called before that, in the turn that invoked init, is
\* served as before the call: getConfig returns the config of the earlier
\* cycle and install, build and run spawn a process.
C26_CommandsFailAfterFlagReset ==
    \A c \in Callers :
        (lastCmd.op # "none" /\ Reinit(c)) =>
            IF pc[c] = "clearAwait"
            THEN /\ ~lastCmd.threw
                 /\ lastCmd.op = "getConfig" => lastCmd.ret = config
                 /\ lastCmd.op # "getConfig" => lastCmd.spawns = 1
            ELSE /\ lastCmd.threw
                 /\ lastCmd.msg = NOT_INITIALIZED_MESSAGE
                 /\ lastCmd.spawns = 0

\* run has been called, and has thrown, while the re-init of an initialized
\* sandbox was provisioning.
C26_Witness ==
    /\ lastCmd.op = "run"
    /\ lastCmd.threw
    /\ \E c \in Callers : Reinit(c) /\ pc[c] = "provision"

====
